---- MODULE Spec2Model ----
(***************************************************************************)
(* Model of scripts/generate_scenarios.py: the static parameter tables,    *)
(* full_combinations(), the built-in greedy branch of                      *)
(* pairwise_combinations(), build_scenario() and the loop of main().       *)
(*                                                                         *)
(* Strings that the program slices or joins (identifiers, scenario names,  *)
(* phase ids) are sequences of tokens: a token is either a separator       *)
(* ("_" or "-") or a maximal run of non-separator characters, so two       *)
(* strings are equal exactly when their token sequences are equal.         *)
(* Numbers written 0.1, 0.4, ... in the tables are kept as the literals    *)
(* "0.1", "0.4", ...: the program never computes with them.                *)
(***************************************************************************)
EXTENDS Integers, Sequences, FiniteSets, TLC

\* ------------------------------------------------------------------------
\* Bounds of the model
\* ------------------------------------------------------------------------

\* Besides the tables as shipped, the tables are cut down to the first
\* 0..MaxSub keys of each dimension, and a defect touches one of the first
\* MaxSub keys only.
MaxSub == 2

\* build_scenario is called again at most MaxRepeat times after main's loop.
MaxRepeat == 1

\* ------------------------------------------------------------------------
\* Static tables (module globals of generate_scenarios.py)
\* ------------------------------------------------------------------------

\* Token sequences of the identifiers the program transforms with
\* str.replace or embeds in f-strings.
Tokens ==
  [ packet_loss         |-> <<"packet", "_", "loss">>,
    latency             |-> <<"latency">>,
    bandwidth_throttle  |-> <<"bandwidth", "_", "throttle">>,
    packet_reorder      |-> <<"packet", "_", "reorder">>,
    connection_drop     |-> <<"connection", "_", "drop">>,
    dns_latency         |-> <<"dns", "_", "latency">>,
    container_restart   |-> <<"container", "_", "restart">>,
    container_pause     |-> <<"container", "_", "pause">>,
    cpu_stress          |-> <<"cpu", "_", "stress">>,
    memory_pressure     |-> <<"memory", "_", "pressure">>,
    disk_io             |-> <<"disk", "_", "io">>,
    validator1_heimdall |-> <<"validator1", "_", "heimdall">>,
    validator1_bor      |-> <<"validator1", "_", "bor">>,
    validator1_both     |-> <<"validator1", "_", "both">>,
    all_heimdall        |-> <<"all", "_", "heimdall">>,
    all_bor             |-> <<"all", "_", "bor">>,
    all_both            |-> <<"all", "_", "both">>,
    rabbitmq            |-> <<"rabbitmq">>,
    rpc_nodes           |-> <<"rpc", "_", "nodes">>,
    target_heimdall     |-> <<"target", "_", "heimdall">>,
    target_bor          |-> <<"target", "_", "bor">>,
    target_rabbitmq     |-> <<"target", "_", "rabbitmq">>,
    target_rpc          |-> <<"target", "_", "rpc">> ]

\* FAULT_DEFINITIONS: type, category and the three parameter sets of every
\* fault type (the label is free text no operation reads back).
FAULT_DEFINITIONS ==
  [ packet_loss |->
      [ type |-> "network", category |-> "network",
        mild     |-> [packet_loss |-> 10, target_proto |-> "tcp,udp", device |-> "eth0"],
        moderate |-> [packet_loss |-> 40, target_proto |-> "tcp,udp", device |-> "eth0"],
        severe   |-> [packet_loss |-> 80, target_proto |-> "tcp,udp", device |-> "eth0"] ],
    latency |->
      [ type |-> "network", category |-> "network",
        mild     |-> [latency |-> 100,  target_proto |-> "tcp,udp", device |-> "eth0"],
        moderate |-> [latency |-> 500,  target_proto |-> "tcp,udp", device |-> "eth0"],
        severe   |-> [latency |-> 2000, target_proto |-> "tcp,udp", device |-> "eth0"] ],
    bandwidth_throttle |->
      [ type |-> "network", category |-> "network",
        mild     |-> [bandwidth |-> 10000, target_proto |-> "tcp,udp", device |-> "eth0"],
        moderate |-> [bandwidth |-> 1000,  target_proto |-> "tcp,udp", device |-> "eth0"],
        severe   |-> [bandwidth |-> 100,   target_proto |-> "tcp,udp", device |-> "eth0"] ],
    packet_reorder |->
      [ type |-> "network", category |-> "network",
        mild     |-> [reorder |-> 25, latency |-> 10, target_proto |-> "tcp,udp", device |-> "eth0"],
        moderate |-> [reorder |-> 50, latency |-> 10, target_proto |-> "tcp,udp", device |-> "eth0"],
        severe   |-> [reorder |-> 75, latency |-> 10, target_proto |-> "tcp,udp", device |-> "eth0"] ],
    connection_drop |->
      [ type |-> "connection_drop", category |-> "network",
        mild     |-> [probability |-> "0.1", target_proto |-> "tcp", rule_type |-> "drop"],
        moderate |-> [probability |-> "0.4", target_proto |-> "tcp", rule_type |-> "drop"],
        severe   |-> [probability |-> "0.8", target_proto |-> "tcp", rule_type |-> "drop"] ],
    dns_latency |->
      [ type |-> "dns", category |-> "network",
        mild     |-> [delay_ms |-> 250,  failure_rate |-> "0.0"],
        moderate |-> [delay_ms |-> 1000, failure_rate |-> "0.1"],
        severe   |-> [delay_ms |-> 5000, failure_rate |-> "0.3"] ],
    container_restart |->
      [ type |-> "container_restart", category |-> "applications",
        mild     |-> [grace_period |-> 30],
        moderate |-> [grace_period |-> 5],
        severe   |-> [grace_period |-> 0] ],
    container_pause |->
      [ type |-> "container_pause", category |-> "applications",
        mild     |-> [duration |-> "30s",  unpause |-> TRUE],
        moderate |-> [duration |-> "60s",  unpause |-> TRUE],
        severe   |-> [duration |-> "120s", unpause |-> TRUE] ],
    cpu_stress |->
      [ type |-> "cpu_stress", category |-> "cpu-memory",
        mild     |-> [cpu_percent |-> 50],
        moderate |-> [cpu_percent |-> 75],
        severe   |-> [cpu_percent |-> 95] ],
    memory_pressure |->
      [ type |-> "memory_stress", category |-> "cpu-memory",
        mild     |-> [memory_mb |-> 256],
        moderate |-> [memory_mb |-> 512],
        severe   |-> [memory_mb |-> 1024] ],
    disk_io |->
      [ type |-> "disk_io", category |-> "filesystem",
        mild     |-> [io_latency_ms |-> 100,  operation |-> "all"],
        moderate |-> [io_latency_ms |-> 500,  operation |-> "all"],
        severe   |-> [io_latency_ms |-> 2000, operation |-> "all"] ] ]

\* FAULT_DEFINITIONS.keys(), in insertion order.
FAULT_KEYS ==
  << "packet_loss", "latency", "bandwidth_throttle", "packet_reorder",
     "connection_drop", "dns_latency", "container_restart", "container_pause",
     "cpu_stress", "memory_pressure", "disk_io" >>

SEVERITY_SLUGS ==
  [ packet_loss        |-> [mild |-> "10pct",    moderate |-> "40pct",  severe |-> "80pct"],
    latency            |-> [mild |-> "100ms",    moderate |-> "500ms",  severe |-> "2s"],
    bandwidth_throttle |-> [mild |-> "10mbps",   moderate |-> "1mbps",  severe |-> "100kbps"],
    packet_reorder     |-> [mild |-> "25pct",    moderate |-> "50pct",  severe |-> "75pct"],
    connection_drop    |-> [mild |-> "10pct",    moderate |-> "40pct",  severe |-> "80pct"],
    dns_latency        |-> [mild |-> "250ms",    moderate |-> "1s",     severe |-> "5s"],
    container_restart  |-> [mild |-> "graceful", moderate |-> "quick",  severe |-> "immediate"],
    container_pause    |-> [mild |-> "30s",      moderate |-> "60s",    severe |-> "120s"],
    cpu_stress         |-> [mild |-> "50pct",    moderate |-> "75pct",  severe |-> "95pct"],
    memory_pressure    |-> [mild |-> "256mb",    moderate |-> "512mb",  severe |-> "1gb"],
    disk_io            |-> [mild |-> "100ms",    moderate |-> "500ms",  severe |-> "2s"] ]

\* TARGET_TIERS: the selector list of every tier (the label is free text).
TARGET_TIERS ==
  [ validator1_heimdall |-> [ selectors |->
      << [pattern |-> "l2-cl-1-heimdall-v2-bor-validator", alias |-> "target_heimdall"] >> ],
    validator1_bor |-> [ selectors |->
      << [pattern |-> "l2-el-1-bor-heimdall-v2-validator", alias |-> "target_bor"] >> ],
    validator1_both |-> [ selectors |->
      << [pattern |-> "l2-cl-1-heimdall-v2-bor-validator", alias |-> "target_heimdall"],
         [pattern |-> "l2-el-1-bor-heimdall-v2-validator", alias |-> "target_bor"] >> ],
    all_heimdall |-> [ selectors |->
      << [pattern |-> "l2-cl-.*-heimdall-v2-bor-validator", alias |-> "target_heimdall"] >> ],
    all_bor |-> [ selectors |->
      << [pattern |-> "l2-el-.*-bor-heimdall-v2-validator", alias |-> "target_bor"] >> ],
    all_both |-> [ selectors |->
      << [pattern |-> "l2-cl-.*-heimdall-v2-bor-validator", alias |-> "target_heimdall"],
         [pattern |-> "l2-el-.*-bor-heimdall-v2-validator", alias |-> "target_bor"] >> ],
    rabbitmq |-> [ selectors |->
      << [pattern |-> "l2-cl-.*-rabbitmq", alias |-> "target_rabbitmq"] >> ],
    rpc_nodes |-> [ selectors |->
      << [pattern |-> "l2-el-.*-bor-heimdall-v2-rpc", alias |-> "target_rpc"] >> ] ]

\* TARGET_TIERS.keys(), in insertion order.
TIER_KEYS ==
  << "validator1_heimdall", "validator1_bor", "validator1_both", "all_heimdall",
     "all_bor", "all_both", "rabbitmq", "rpc_nodes" >>

SEVERITIES == << "mild", "moderate", "severe" >>

TIMING ==
  [ mild     |-> [duration |-> "3m", warmup |-> "30s", cooldown |-> "30s"],
    moderate |-> [duration |-> "5m", warmup |-> "60s", cooldown |-> "60s"],
    severe   |-> [duration |-> "8m", warmup |-> "2m",  cooldown |-> "2m"] ]

\* INVARIANT_CRITERIA: the three criteria, by name (query and threshold are
\* literals copied unchanged into every record).
INVARIANT_CRITERIA ==
  << [name |-> "block_production_continues", critical |-> TRUE],
     [name |-> "consensus_height_advances",  critical |-> TRUE],
     [name |-> "bft_quorum_maintained",      critical |-> TRUE] >>


\* ------------------------------------------------------------------------
\* State
\* ------------------------------------------------------------------------

VARIABLES
  tables,      \* the module globals as loaded: the keys of FAULT_DEFINITIONS and
               \* TARGET_TIERS, SEVERITIES, and what a malformed table lacks
  args,        \* argparse result: pairwise (list_only is drawn where it is read)
  pc,          \* position of main()
  all_combos, required, covered, selected, best_combo, best_new,
               \* locals of pairwise_combinations()
  combos,      \* main(): combos
  written,     \* main(): written (also the loop position in combos)
  scenario,    \* main(): the record build_scenario returned last
  built,       \* every record build_scenario has returned, in call order
  next_id,     \* identity the next dict object gets
  files,       \* the output tree: path -> content
  listed,      \* rows printed by _print_list
  error,       \* the exception that ended the run, "none" if none
  repeats,     \* calls of build_scenario made after main's loop
  rounds       \* iterations of "while covered < required" begun so far

vars == << tables, args, pc, all_combos, required, covered, selected,
           best_combo, best_new, combos, written, scenario, built, next_id,
           files, listed, error, repeats, rounds >>

\* Python's None.
None == << >>

Min(a, b) == IF a < b THEN a ELSE b

\* Position of x in the sequence s (x occurs in s).
IndexOf(s, x) == CHOOSE k \in 1..Len(s) : s[k] = x

Range(s) == { s[k] : k \in 1..Len(s) }

\* ------------------------------------------------------------------------
\* Table lookups
\* ------------------------------------------------------------------------

\* "severity in fault_def": the parameter set is present.
HasParams(ft, sv) == << ft, sv >> \notin tables.missing

\* TARGET_TIERS[target_tier]["selectors"]
Selectors(tt) ==
  IF tt \in tables.noselectors THEN << >> ELSE TARGET_TIERS[tt].selectors

\* A dict object: its identity and its items.  The parameter sets stored in
\* FAULT_DEFINITIONS are the objects 1..NumTableObjects.
NumTableObjects == Len(FAULT_KEYS) * Len(SEVERITIES)

TableObject(ft, sv) ==
  [ id    |-> (IndexOf(FAULT_KEYS, ft) - 1) * Len(SEVERITIES) + IndexOf(SEVERITIES, sv),
    items |-> FAULT_DEFINITIONS[ft][sv] ]

\* ------------------------------------------------------------------------
\* Pure functions
\* ------------------------------------------------------------------------

\* str.replace(old, new) where old and new are single separator characters.
Replace(s, old, new) == [ k \in 1..Len(s) |-> IF s[k] = old THEN new ELSE s[k] ]

\* ExtendOne with pool[0] appended instead of y.
ExtendOne_FirstOnly(x, pool) == [ k \in 1..Len(pool) |-> Append(x, pool[1]) ]

\* [x + (y,) for y in pool]
ExtendOne(x, pool) == [ k \in 1..Len(pool) |-> Append(x, pool[k]) ]

\* [x + (y,) for x in result[lo..hi] for y in pool], the range split in
\* halves so that the evaluation nests only logarithmically deep.
RECURSIVE ExtendRange(_, _, _, _)
ExtendRange(result, lo, hi, pool) ==
  IF lo > hi THEN << >>
  ELSE IF lo = hi THEN ExtendOne(result[lo], pool)
  ELSE LET mid == (lo + hi) \div 2
       IN  ExtendRange(result, lo, mid, pool) \o ExtendRange(result, mid + 1, hi, pool)

\* ExtendAll with the two loops exchanged: for y in pool for x in result.
ExtendAll_Swapped(result, pool) ==
  [ k \in 1..(Len(result) * Len(pool)) |->
      Append(result[((k - 1) % Len(result)) + 1], pool[((k - 1) \div Len(result)) + 1]) ]

\* [x + (y,) for x in result for y in pool]
ExtendAll(result, pool) == ExtendRange(result, 1, Len(result), pool)

\* itertools.product(*pools): result = [()]; for pool in pools: result =
\* [x + (y,) for x in result for y in pool].
RECURSIVE product(_)
product(pools) ==
  IF pools = << >> THEN << << >> >>
  ELSE ExtendAll(product(SubSeq(pools, 1, Len(pools) - 1)), pools[Len(pools)])

\* dimensions of pairwise_combinations(), the arguments of product in
\* full_combinations().
dimensions == << tables.faults, tables.tiers, tables.severities >>

full_combinations == product(dimensions)

\* (i, j) for i in range(n) for j in range(i + 1, n)
DimPairs(n) == { p \in (0..(n - 1)) \X (0..(n - 1)) : p[1] < p[2] }

\* The requirement (i, combo[i], j, combo[j]); Python indexes from 0.
Req(combo, p) == << p[1], combo[p[1] + 1], p[2], combo[p[2] + 1] >>

\* Required with the outer loop starting at 1: for i in range(1, n).
Required_SkipFirst(dims) ==
  UNION { { << p[1], dims[p[1] + 1][a], p[2], dims[p[2] + 1][b] >> :
              a \in 1..Len(dims[p[1] + 1]), b \in 1..Len(dims[p[2] + 1]) } :
          p \in { q \in DimPairs(Len(dims)) : q[1] >= 1 } }

\* required of pairwise_combinations().
Required(dims) ==
  UNION { { << p[1], dims[p[1] + 1][a], p[2], dims[p[2] + 1][b] >> :
              a \in 1..Len(dims[p[1] + 1]), b \in 1..Len(dims[p[2] + 1]) } :
          p \in DimPairs(Len(dims)) }

\* NewCount without the test "not in covered": every pair of combo counts.
NewCount_IgnoreCovered(combo, cov, n) ==
  Cardinality(DimPairs(n))

\* NewCount that looks at the first pair of dimensions only.
NewCount_FirstPairOnly(combo, cov, n) ==
  Cardinality({ p \in DimPairs(n) : p = << 0, 1 >> /\ Req(combo, p) \notin cov })

\* new: the number of pairs of combo not in cov.
NewCount(combo, cov, n) ==
  Cardinality({ p \in DimPairs(n) : Req(combo, p) \notin cov })

\* Better with >= for >: a later candidate that ties replaces the best.
Better_OrEqual(new, bn) == new >= bn

\* "if new > best_new": the candidate replaces the best so far.
Better(new, bn) == new > bn

\* One step of the scan "for combo in all_combos": the best so far after
\* combo has been looked at.
ScanStep(combo, cov, n, best) ==
  LET new == NewCount(combo, cov, n)
  IN  IF Better(new, best.new) THEN [ combo |-> combo, new |-> new ] ELSE best

\* The scan over cs[lo..hi] in order, starting from the best so far: the
\* first half, then the second half from the first half's result.  The
\* result of the first half is bound as the one element of a set, so that
\* TLC computes it once, before it descends into the second half, and the
\* evaluation nests only logarithmically deep.
RECURSIVE ScanRange(_, _, _, _, _, _)
ScanRange(cs, lo, hi, cov, n, best) ==
  IF lo > hi THEN best
  ELSE IF lo = hi THEN ScanStep(cs[lo], cov, n, best)
  ELSE LET mid == (lo + hi) \div 2
       IN  CHOOSE r \in { ScanRange(cs, mid + 1, hi, cov, n, left) :
                             left \in { ScanRange(cs, lo, mid, cov, n, best) } } :
             TRUE

\* One pass of the inner loop: best_combo, best_new = None, -1, then the scan.
Best(cs, cov, n) ==
  ScanRange(cs, 1, Len(cs), cov, n, [ combo |-> None, new |-> -1 ])

\* Cover whose inner loop stops after the first pair of dimensions: only
\* (0, combo[0], 1, combo[1]) is added to covered.
Cover_FirstPairOnly(combo, n) ==
  { Req(combo, p) : p \in { q \in DimPairs(n) : q = << 0, 1 >> } }

\* The requirements the update loop adds to covered for best_combo.
Cover(combo, n) == { Req(combo, p) : p \in DimPairs(n) }

\* "covered < required": proper subset.
ProperSubset(a, b) == a \subseteq b /\ a # b


\* ------------------------------------------------------------------------
\* build_scenario
\* ------------------------------------------------------------------------

\* dict_copy that hands back the object it was given: no copy is made.
dict_alias(d, id) == d

\* dict(d) and {k: v for k, v in d.items()}: a new dict object with the
\* items of d.
dict_copy(d, id) == [ id |-> id, items |-> d.items ]

\* ScenarioName without the slug.
ScenarioName_NoSlug(ft, tt, sv) ==
  << "gen" >> \o << "-" >> \o Replace(Tokens[ft], "_", "-")
     \o << "-" >> \o Replace(Tokens[tt], "_", "-")

\* name: "gen" "-" fault type "-" slug "-" target tier, with "_" replaced
\* by "-" in the fault type and the tier.
ScenarioName(ft, tt, sv) ==
  << "gen" >> \o << "-" >> \o Replace(Tokens[ft], "_", "-")
     \o << "-" >> \o << SEVERITY_SLUGS[ft][sv] >>
     \o << "-" >> \o Replace(Tokens[tt], "_", "-")

\* PhaseId without the replacement of "_" in the fault type.
PhaseId_NoReplace(ft, alias) == Tokens[ft] \o << "-" >> \o Tokens[alias]

\* phase: fault type with "_" replaced by "-", "-", the selector's alias.
PhaseId(ft, alias) == Replace(Tokens[ft], "_", "-") \o << "-" >> \o Tokens[alias]

\* The record build_scenario(ft, tt, sv) returns when fault_def[severity]
\* exists; id0 is the identity of the first dict object it creates
\* (base_params), the params of the k-th fault entry is object id0 + k.
build_scenario(ft, tt, sv, id0) ==
  LET fault_def   == FAULT_DEFINITIONS[ft]
      timing      == TIMING[sv]
      selectors   == Selectors(tt)
      base_params == dict_copy(TableObject(ft, sv), id0)
      faults      == [ k \in 1..Len(selectors) |->
                         [ phase  |-> PhaseId(ft, selectors[k].alias),
                           target |-> selectors[k].alias,
                           type   |-> fault_def.type,
                           params |-> dict_copy(base_params, id0 + k) ] ]
      criteria    == [ k \in 1..Len(INVARIANT_CRITERIA) |->
                         [ name     |-> INVARIANT_CRITERIA[k].name,
                           critical |-> INVARIANT_CRITERIA[k].critical,
                           window   |-> timing.duration ] ]
      slug        == SEVERITY_SLUGS[ft][sv]
  IN  [ apiVersion |-> "chaos.polygon.io/v1",
        kind       |-> "ChaosScenario",
        metadata   |->
          [ name |-> ScenarioName(ft, tt, sv),
            tags |-> << << "generated" >>, Replace(Tokens[ft], "_", "-"),
                        << slug >>, Tokens[tt] >> ],
        spec       |->
          [ targets  |-> [ k \in 1..Len(selectors) |->
                             [ selector |-> [ type    |-> "kurtosis_service",
                                              enclave |-> "${ENCLAVE_NAME}",
                                              pattern |-> selectors[k].pattern ],
                               alias    |-> selectors[k].alias ] ],
            duration |-> timing.duration,
            warmup   |-> timing.warmup,
            cooldown |-> timing.cooldown,
            faults   |-> faults,
            success_criteria |-> criteria ] ]

\* The number of dict objects one call of build_scenario creates that carry
\* a parameter set: base_params and one per selector.
ObjectsPerCall(tt) == 1 + Len(Selectors(tt))

\* os.path.join(args.output, category, name + ".yaml"): the output root and
\* the suffix are the same for every file of a run.
OutPath(ft, name) == << FAULT_DEFINITIONS[ft].category, name >>

\* open(out_path, "w").write(content): creates the file or replaces its
\* content.  The content is the serialised record, which the combination
\* determines; the text PyYAML produces is not modelled.
WriteFile(fs, path, content) ==
  [ q \in (DOMAIN fs) \cup { path } |-> IF q = path THEN content ELSE fs[q] ]

\* rows of _print_list: name, category, duration (the description is free
\* text).
ListRows(cs) ==
  [ k \in 1..Len(cs) |->
      [ name     |-> << "gen" >> \o << "-" >> \o Replace(Tokens[cs[k][1]], "_", "-")
                       \o << "-" >> \o << SEVERITY_SLUGS[cs[k][1]][cs[k][3]] >>
                       \o << "-" >> \o Replace(Tokens[cs[k][2]], "_", "-"),
        category |-> FAULT_DEFINITIONS[cs[k][1]].category,
        dur      |-> TIMING[cs[k][3]].duration ] ]

\* ------------------------------------------------------------------------
\* Initial states
\* ------------------------------------------------------------------------

\* The tables as shipped.
ShippedTables ==
  [ faults |-> FAULT_KEYS, tiers |-> TIER_KEYS, severities |-> SEVERITIES,
    missing |-> { }, noselectors |-> { } ]

\* What a malformed table lacks: nothing, the parameter set of one fault
\* type for one severity, or the selectors of one tier.
Defects(f, t, s) ==
  { [ missing |-> { }, noselectors |-> { } ] }
  \cup { [ missing |-> { << f[a], s[c] >> }, noselectors |-> { } ] :
           a \in 1..Min(MaxSub, Len(f)), c \in 1..Min(MaxSub, Len(s)) }
  \cup { [ missing |-> { }, noselectors |-> { t[b] } ] :
           b \in 1..Min(MaxSub, Len(t)) }

TablesOfShape(a, b, c) ==
  LET f == SubSeq(FAULT_KEYS, 1, a)
      t == SubSeq(TIER_KEYS, 1, b)
      s == SubSeq(SEVERITIES, 1, c)
  IN  { [ faults |-> f, tiers |-> t, severities |-> s,
          missing |-> d.missing, noselectors |-> d.noselectors ] :
        d \in Defects(f, t, s) }

\* The tables a run can be started with: the shipped tables, their
\* restrictions to the first keys of each dimension (a dimension may be
\* empty), each with at most one defect.
TableFamily ==
  UNION { TablesOfShape(sh[1], sh[2], sh[3]) :
          sh \in ( ((0..Min(MaxSub, Len(FAULT_KEYS)))
                     \X (0..Min(MaxSub, Len(TIER_KEYS)))
                     \X (0..Min(MaxSub, Len(SEVERITIES))))
                   \cup { << Len(FAULT_KEYS), Len(TIER_KEYS), Len(SEVERITIES) >> } ) }

Init ==
  /\ tables \in TableFamily
  /\ args \in [ pairwise : BOOLEAN ]
  /\ pc = "start"
  /\ all_combos = << >>
  /\ required = { }
  /\ covered = { }
  /\ selected = << >>
  /\ best_combo = None
  /\ best_new = -1
  /\ combos = << >>
  /\ written = 0
  /\ scenario = None
  /\ built = << >>
  /\ next_id = NumTableObjects + 1
  /\ files = << >>
  /\ listed = << >>
  /\ error = "none"
  /\ repeats = 0
  /\ rounds = 0

\* ------------------------------------------------------------------------
\* Actions
\* ------------------------------------------------------------------------

\* main(): combos = pairwise_combinations() if args.pairwise else
\* full_combinations().  allpairspy says whether "from allpairspy import
\* AllPairs" succeeds; when it does the selection is the library's and the
\* model follows the run no further.
CallStrategy ==
  /\ pc = "start"
  /\ \E allpairspy \in BOOLEAN :
     IF ~args.pairwise
       THEN /\ combos' = full_combinations
            /\ pc' = "combos"
            /\ UNCHANGED << all_combos, required, covered, selected >>
       ELSE IF allpairspy
         THEN /\ pc' = "delegated"
              /\ UNCHANGED << combos, all_combos, required, covered, selected >>
         ELSE /\ all_combos' = product(dimensions)
              /\ required' = Required(dimensions)
              /\ covered' = { }
              /\ selected' = << >>
              /\ pc' = "greedy"
              /\ UNCHANGED combos
  /\ UNCHANGED << tables, args, best_combo, best_new, written,
                  scenario, built, next_id, files, listed, error, repeats, rounds >>

\* One iteration of "while covered < required": the scan, then either the
\* break (the function returns selected) or the append and the update of
\* covered.  n and b are the locals n and (best_combo, best_new) after the
\* scan; rounds counts the iteration.
GreedyRound ==
  /\ pc = "greedy"
  /\ ProperSubset(covered, required)
  /\ \E n \in { Len(dimensions) } :
     \E b \in { Best(all_combos, covered, n) } :
         /\ best_combo' = b.combo
         /\ best_new' = b.new
         /\ IF b.combo = None \/ b.new = 0
              THEN /\ combos' = selected
                   /\ pc' = "combos"
                   /\ UNCHANGED << selected, covered >>
              ELSE /\ selected' = Append(selected, b.combo)
                   /\ covered' = covered \cup Cover(b.combo, n)
                   /\ UNCHANGED << combos, pc >>
  /\ UNCHANGED << tables, args, all_combos, required, written,
                  scenario, built, next_id, files, listed, error, repeats >>
  /\ rounds' = rounds + 1

\* The loop condition is false: return selected.
GreedyReturn ==
  /\ pc = "greedy"
  /\ ~ProperSubset(covered, required)
  /\ combos' = selected
  /\ pc' = "combos"
  /\ UNCHANGED << tables, args, all_combos, required, covered,
                  selected, best_combo, best_new, written, scenario, built,
                  next_id, files, listed, error, repeats, rounds >>

\* main() after combos is bound: with --list (list_only), _print_list(combos)
\* and return (max() of no rows raises ValueError); otherwise written = 0
\* and the loop starts.
AfterCombos ==
  /\ pc = "combos"
  /\ \E list_only \in BOOLEAN :
     IF list_only
       THEN IF combos = << >>
              THEN /\ error' = "ValueError"
                   /\ pc' = "raised"
                   /\ UNCHANGED << listed, written >>
              ELSE /\ listed' = ListRows(combos)
                   /\ pc' = "done"
                   /\ UNCHANGED << error, written >>
       ELSE /\ written' = 0
            /\ pc' = "write"
            /\ UNCHANGED << listed, error >>
  /\ UNCHANGED << tables, args, all_combos, required, covered,
                  selected, best_combo, best_new, combos, scenario, built,
                  next_id, files, repeats, rounds >>

\* One iteration of "for ft, tt, sv in combos": build_scenario (KeyError at
\* fault_def[severity] when the parameter set is missing), then the file is
\* written and written += 1.
LoopBody ==
  /\ pc = "write"
  /\ written < Len(combos)
  /\ LET c  == combos[written + 1]
         ft == c[1]
         tt == c[2]
         sv == c[3]
     IN  IF ~HasParams(ft, sv)
           THEN /\ error' = "KeyError"
                /\ pc' = "raised"
                /\ UNCHANGED << scenario, built, next_id, files, written >>
           ELSE LET rec == build_scenario(ft, tt, sv, next_id)
                IN  /\ scenario' = rec
                    /\ built' = Append(built, rec)
                    /\ next_id' = next_id + ObjectsPerCall(tt)
                    /\ files' = WriteFile(files, OutPath(ft, rec.metadata.name), c)
                    /\ written' = written + 1
                    /\ UNCHANGED << error, pc >>
  /\ UNCHANGED << tables, args, all_combos, required, covered,
                  selected, best_combo, best_new, combos, listed, repeats, rounds >>

\* The loop is exhausted: the summary is printed and main returns.
LoopEnd ==
  /\ pc = "write"
  /\ written = Len(combos)
  /\ pc' = "done"
  /\ UNCHANGED << tables, args, all_combos, required, covered,
                  selected, best_combo, best_new, combos, written, scenario,
                  built, next_id, files, listed, error, repeats, rounds >>

\* A caller that holds the records built so far calls build_scenario once
\* more, for the combination built last.
RepeatBuild ==
  /\ pc = "done"
  /\ repeats < MaxRepeat
  /\ written > 0
  /\ LET c == combos[written]
     IN  /\ built' = Append(built, build_scenario(c[1], c[2], c[3], next_id))
         /\ next_id' = next_id + ObjectsPerCall(c[2])
  /\ repeats' = repeats + 1
  /\ UNCHANGED << tables, args, pc, all_combos, required, covered,
                  selected, best_combo, best_new, combos, written, scenario,
                  files, listed, error, rounds >>

Next ==
  \/ CallStrategy
  \/ GreedyRound
  \/ GreedyReturn
  \/ AfterCombos
  \/ LoopBody
  \/ LoopEnd
  \/ RepeatBuild

Spec == Init /\ [][Next]_vars

\* The same program under the scheduling of a single Python thread: once
\* pairwise_combinations() has entered its while loop, the interpreter runs
\* the next iteration, or the return that follows the loop, without waiting
\* for anything.
LiveSpec ==
  /\ Init
  /\ [][Next]_vars
  /\ WF_vars(GreedyRound)
  /\ WF_vars(GreedyReturn)


\* ------------------------------------------------------------------------
\* Vocabulary of the properties
\* ------------------------------------------------------------------------

\* Every dimension has at least one value.
NoEmptyDimension ==
  tables.faults # << >> /\ tables.tiers # << >> /\ tables.severities # << >>

\* The tables are malformed: a dimension is empty, a fault type lacks the
\* parameter set of a declared severity, or a tier has no selectors.
Malformed ==
  \/ ~NoEmptyDimension
  \/ \E k \in 1..Len(tables.faults), m \in 1..Len(tables.severities) :
       ~HasParams(tables.faults[k], tables.severities[m])
  \/ \E k \in 1..Len(tables.tiers) : Selectors(tables.tiers[k]) = << >>

\* full_combinations() has just returned to main().
FullReturned == ~args.pairwise /\ pc = "combos"

\* The greedy branch of pairwise_combinations() has just returned to main().
GreedyReturned == args.pairwise /\ pc = "combos"

\* c is a member of the Cartesian product of the dimensions.
InDomain(c) ==
  /\ Len(c) = 3
  /\ c[1] \in Range(tables.faults)
  /\ c[2] \in Range(tables.tiers)
  /\ c[3] \in Range(tables.severities)

\* Some combination of cs has value v in dimension i and w in dimension j
\* (dimensions counted from 0).
CoversPair(cs, i, v, j, w) ==
  \E k \in 1..Len(cs) : cs[k][i + 1] = v /\ cs[k][j + 1] = w

\* ------------------------------------------------------------------------
\* C1
\* ------------------------------------------------------------------------

\* C1: when the greedy branch of pairwise_combinations() returns over tables
\* with no empty dimension (the shipped 11 x 8 x 3 tables among them), the
\* returned list has complete 2-way coverage (for every pair of dimensions
\* i < j and every value v of dimension i and w of dimension j some returned
\* combination has v in dimension i and w in dimension j), and every returned
\* combination is a member of the Cartesian product.
C1_PairwiseCoverage ==
  (GreedyReturned /\ NoEmptyDimension) =>
     /\ \A p \in DimPairs(3) :
          \A v \in Range(dimensions[p[1] + 1]), w \in Range(dimensions[p[2] + 1]) :
             CoversPair(combos, p[1], v, p[2], w)
     /\ \A k \in 1..Len(combos) : InDomain(combos[k])

\* The greedy branch has returned its 88 combinations over the shipped tables.
C1_Witness ==
  /\ GreedyReturned
  /\ tables = ShippedTables
  /\ Len(combos) = 88

\* ------------------------------------------------------------------------
\* C2
\* ------------------------------------------------------------------------

\* C2: full_combinations() returns exactly |fault types| * |tiers| *
\* |severities| combinations (264 for the shipped tables), none twice, each
\* a tuple (fault type, tier, severity) of declared values, and, when no
\* dimension is empty, every declared value of every dimension occurs in
\* some returned combination.
C2_FullEnumeration ==
  FullReturned =>
     /\ Len(combos) = Len(tables.faults) * Len(tables.tiers) * Len(tables.severities)
     /\ (tables.faults = FAULT_KEYS /\ tables.tiers = TIER_KEYS
           /\ tables.severities = SEVERITIES) => Len(combos) = 264
     /\ \A a, b \in 1..Len(combos) : a # b => combos[a] # combos[b]
     /\ \A k \in 1..Len(combos) : InDomain(combos[k])
     /\ NoEmptyDimension =>
          \A d \in 1..3 : \A v \in Range(dimensions[d]) :
             \E k \in 1..Len(combos) : combos[k][d] = v

\* full_combinations() has returned the 264 combinations of the shipped tables.
C2_Witness ==
  /\ FullReturned
  /\ tables = ShippedTables
  /\ Len(combos) = 264

\* ------------------------------------------------------------------------
\* C3
\* ------------------------------------------------------------------------

\* C3: the sequence full_combinations() returns is in canonical order: the
\* combination at zero-based position k has severity index k mod |severities|,
\* tier index (k div |severities|) mod |tiers| and fault-type index
\* k div (|severities| * |tiers|), indices being zero-based positions in the
\* declared order of each table.
C3_CanonicalOrder ==
  FullReturned =>
     LET nt == Len(tables.tiers)
         ns == Len(tables.severities)
     IN  \A k \in 0..(Len(combos) - 1) :
            combos[k + 1] = << tables.faults[(k \div (ns * nt)) + 1],
                               tables.tiers[((k \div ns) % nt) + 1],
                               tables.severities[(k % ns) + 1] >>

\* full_combinations() has returned over the shipped tables, and the
\* combination at zero-based position 25 is (latency, validator1_heimdall,
\* moderate): 25 = 1 * 24 + 0 * 3 + 1.
C3_Witness ==
  /\ FullReturned
  /\ tables = ShippedTables
  /\ Len(combos) > 25
  /\ combos[26] = << "latency", "validator1_heimdall", "moderate" >>

\* ------------------------------------------------------------------------
\* C4
\* ------------------------------------------------------------------------

\* C4: the scenario name is injective over the full combination domain (no
\* two distinct combinations full_combinations() returns have the same
\* name), and in every run of main() each combination written so far went
\* to a file path of its own.
C4_NameInjective ==
  /\ FullReturned =>
       \A a, b \in 1..Len(combos) :
          a # b => ScenarioName(combos[a][1], combos[a][2], combos[a][3])
                     # ScenarioName(combos[b][1], combos[b][2], combos[b][3])
  /\ pc \in { "write", "done", "raised" } =>
       Cardinality(DOMAIN files) = written

\* main() has written every one of the 264 combinations of the shipped
\* tables.
C4_Witness ==
  /\ ~args.pairwise
  /\ pc = "done"
  /\ tables = ShippedTables
  /\ written = 264
  /\ Cardinality(DOMAIN files) = 264


\* ------------------------------------------------------------------------
\* C5
\* ------------------------------------------------------------------------

C6_ShortfallSurfaced == ~(GreedyReturned /\ error = "none" /\ covered # required)

\* ------------------------------------------------------------------------
\* C7
\* ------------------------------------------------------------------------

\* C7: with malformed tables the run fails with a ConfigError before any
\* combination is generated and before any file is written: the run is
\* either not yet past its start or has ended with ConfigError, no
\* combination list exists and the output tree is empty.
C7_ConfigErrorBeforeGeneration ==
  Malformed =>
     /\ pc \in { "start", "raised" }
     /\ pc = "raised" => error = "ConfigError"
     /\ combos = << >>
     /\ all_combos = << >>
     /\ DOMAIN files = { }

\* ------------------------------------------------------------------------
\* C8
\* ------------------------------------------------------------------------

\* The places of the fault entries of all records built so far: (r, k) is
\* the k-th fault entry of the r-th record.
EntryPlaces ==
  UNION { { << r, k >> : k \in 1..Len(built[r].spec.faults) } : r \in 1..Len(built) }

\* The identity of the params object of the fault entry at place e.
ParamsId(e) == built[e[1]].spec.faults[e[2]].params.id

\* C8: over all records build_scenario has returned (for different
\* combinations, and for the same combination called again), every fault
\* entry has a params object of its own: no two entries, of one record or of
\* two, hold the same object, and none holds an object stored in
\* FAULT_DEFINITIONS.
C8_ParamsNotShared ==
  /\ Cardinality({ ParamsId(e) : e \in EntryPlaces }) = Cardinality(EntryPlaces)
  /\ \A e \in EntryPlaces : ParamsId(e) \notin 1..NumTableObjects

\* Records exist for several combinations, one of them with two fault
\* entries, and build_scenario has been called again for a combination
\* already built.
C8_Witness ==
  /\ repeats = 1
  /\ Len(built) >= 3
  /\ \E r \in 1..Len(built) : Len(built[r].spec.faults) = 2

\* ------------------------------------------------------------------------
\* C9
\* ------------------------------------------------------------------------

\* h is s with every "_" replaced by "-".
IsHyphenated(h, s) ==
  /\ Len(h) = Len(s)
  /\ \A i \in 1..Len(s) : h[i] = (IF s[i] = "_" THEN "-" ELSE s[i])

\* C9: the record build_scenario returned last, for the combination (ft, tt,
\* sv), has one fault entry per selector of the tier, in selector order; the
\* entry of selector s has target s.alias, phase hyphenated ft, "-", s.alias,
\* type the fault's runner type and params equal to the fault's parameter
\* set for sv; the targets list has the same length and the same aliases in
\* the same order.  (packet_loss, validator1_heimdall, moderate) gives one
\* entry of type "network" with packet_loss 40, and (container_pause,
\* rabbitmq, severe) gives one target and params duration "120s", unpause
\* true.
C9_RecordContents ==
  (pc \in { "write", "done" } /\ written > 0) =>
     LET c      == combos[written]
         ft     == c[1]
         tt     == c[2]
         sv     == c[3]
         sel    == IF tt \in tables.noselectors THEN << >> ELSE TARGET_TIERS[tt].selectors
         faults == scenario.spec.faults
         tgts   == scenario.spec.targets
     IN  /\ Len(faults) = Len(sel)
         /\ Len(tgts) = Len(sel)
         /\ \A k \in 1..Len(sel) :
              /\ faults[k].target = sel[k].alias
              /\ tgts[k].alias = sel[k].alias
              /\ tgts[k].selector.pattern = sel[k].pattern
              /\ faults[k].type = FAULT_DEFINITIONS[ft].type
              /\ faults[k].params.items = FAULT_DEFINITIONS[ft][sv]
              /\ \E h \in { SubSeq(faults[k].phase, 1, Len(Tokens[ft])) } :
                   /\ IsHyphenated(h, Tokens[ft])
                   /\ faults[k].phase = h \o << "-" >> \o Tokens[sel[k].alias]
         /\ (c = << "packet_loss", "validator1_heimdall", "moderate" >>
               /\ tables.noselectors = { }) =>
              /\ Len(faults) = 1
              /\ faults[1].type = "network"
              /\ faults[1].target = "target_heimdall"
              /\ faults[1].phase =
                   << "packet", "-", "loss", "-", "target", "_", "heimdall" >>
              /\ faults[1].params.items =
                   [ packet_loss |-> 40, target_proto |-> "tcp,udp", device |-> "eth0" ]
         /\ (c = << "container_pause", "rabbitmq", "severe" >>
               /\ tables.noselectors = { }) =>
              /\ Len(tgts) = 1
              /\ tgts[1].alias = "target_rabbitmq"
              /\ Len(faults) = 1
              /\ faults[1].type = "container_pause"
              /\ faults[1].params.items = [ duration |-> "120s", unpause |-> TRUE ]

\* build_scenario has just returned the record of (container_pause,
\* rabbitmq, severe) over the shipped tables.
C9_Witness ==
  /\ pc = "write"
  /\ written > 0
  /\ tables = ShippedTables
  /\ combos[written] = << "container_pause", "rabbitmq", "severe" >>

\* ------------------------------------------------------------------------
\* C10
\* ------------------------------------------------------------------------

\* The position in cs of the earliest combination that adds the largest
\* number of requirements not in cov.
EarliestMaxIndex(cs, cov, n) ==
  LET counts == { NewCount(cs[m], cov, n) : m \in 1..Len(cs) }
      mx     == CHOOSE x \in counts : \A y \in counts : y <= x
  IN  CHOOSE k \in 1..Len(cs) :
        /\ NewCount(cs[k], cov, n) = mx
        /\ \A m \in 1..(k - 1) : NewCount(cs[m], cov, n) # mx

\* C10: in every round of the greedy loop the candidates are all combinations
\* of the full Cartesian product in full-enumeration order (already selected
\* ones included), and the combination appended to selected is the earliest
\* in that order among those that add the largest number of uncovered
\* requirements; the selection is therefore a function of the tables.
C10_EarliestBestPick ==
  [][ (pc = "greedy" /\ selected' # selected) =>
        /\ all_combos = full_combinations
        /\ selected' = Append(selected,
                              all_combos[EarliestMaxIndex(all_combos, covered, 3)]) ]_vars

\* The greedy loop has run at least two rounds over the shipped tables: the
\* first pick was made among 264 tied candidates, and the candidates of the
\* later rounds include the combinations already selected.
C10_Witness ==
  /\ pc = "greedy"
  /\ tables = ShippedTables
  /\ Len(selected) >= 2
  /\ selected[1] = << "packet_loss", "validator1_heimdall", "mild" >>
  /\ selected[1] \in Range(all_combos)

\* ------------------------------------------------------------------------
\* C11
\* ------------------------------------------------------------------------

\* The condition under which the while loop is left at its next step: covered
\* equals required, or there is no candidate, or no candidate adds a
\* requirement that is not covered yet.
StopCondition ==
  \/ covered = required
  \/ all_combos = << >>
  \/ \A k \in 1..Len(all_combos) : NewCount(all_combos[k], covered, 3) = 0

\* The sum over the pairs of dimensions i < j of |Di| * |Dj|.
PairProductSum ==
    Len(tables.faults) * Len(tables.tiers)
  + Len(tables.faults) * Len(tables.severities)
  + Len(tables.tiers) * Len(tables.severities)

\* C11: the greedy loop of pairwise_combinations() terminates. Once entered,
\* the loop is eventually left and the function returns; at the loop's head
\* the next step leaves the loop exactly when covered equals required or no
\* candidate adds a new requirement (or there is no candidate), and otherwise
\* it appends a combination and goes round again; the number of iterations
\* begun never exceeds |required|, and |required| is the sum over the pairs
\* of dimensions i < j of |Di| * |Dj|.
C11_GreedyTerminates ==
  /\ []( (pc = "greedy" \/ GreedyReturned) =>
           /\ rounds <= Cardinality(required)
           /\ Cardinality(required) = PairProductSum )
  /\ [][ pc = "greedy" => ((pc' = "combos") <=> StopCondition) ]_vars
  /\ (pc = "greedy") ~> (pc = "combos")

\* The loop has been left over the shipped tables after 88 iterations, with
\* all 11*8 + 11*3 + 8*3 = 145 requirements covered.
C11_Witness ==
  /\ GreedyReturned
  /\ tables = ShippedTables
  /\ rounds = 88
  /\ covered = required
  /\ Cardinality(required) = 145

\* ------------------------------------------------------------------------
\* C12
\* ------------------------------------------------------------------------

\* The pairwise projections (i, c[i], j, c[j]), i < j, of the first k
\* combinations of cs.
Projections(cs, k) == UNION { Cover(cs[m], 3) : m \in 1..k }

\* C12: at the head of the greedy loop after every round, and when the loop
\* has been left, covered is a subset of required and is exactly the set of
\* pairwise projections of the combinations in selected; every combination
\* in selected has a projection that none of the combinations appended
\* before it has; selected holds no combination twice.  A round that appends
\* a combination makes covered strictly larger, and over tables with no
\* empty dimension every round appends one.
C12_LoopInvariant ==
  /\ []( (pc = "greedy" \/ GreedyReturned) =>
           /\ covered \subseteq required
           /\ covered = Projections(selected, Len(selected))
           /\ \A k \in 1..Len(selected) :
                ~(Cover(selected[k], 3) \subseteq Projections(selected, k - 1))
           /\ \A k, m \in 1..Len(selected) :
                selected[k] = selected[m] => k = m )
  /\ [][ /\ selected' # selected =>
             /\ ProperSubset(covered, covered')
             /\ ~(Cover(selected'[Len(selected')], 3) \subseteq covered)
         /\ (rounds' # rounds /\ NoEmptyDimension) =>
             /\ Len(selected') = Len(selected) + 1
             /\ ProperSubset(covered, covered') ]_vars

\* The loop is at its head over the shipped tables after 40 rounds, each of
\* which appended a combination, with part of required still uncovered.
C12_Witness ==
  /\ pc = "greedy"
  /\ tables = ShippedTables
  /\ rounds = 40
  /\ Len(selected) = 40
  /\ Cardinality(covered) > 40
  /\ ProperSubset(covered, required)

====
